---- MODULE Spec2Model ----
(***************************************************************************)
(* Model of charge_light_association.py: main() associates the external    *)
(* triggers of a charge event file with the events of a light event file   *)
(* by coarse (unix) and fine (PPS) timestamps.                             *)
(*                                                                         *)
(* Arrays are functions over 0..n-1, as numpy indexes them.                *)
(***************************************************************************)
EXTENDS Integers, Sequences, FiniteSets, TLC

\* ---- bounds of the model ------------------------------------------------
MaxCharge == 3      \* charge_n_events is drawn from 0..MaxCharge
MaxLight  == 3      \* light_n_events is drawn from 0..MaxLight
MaxCoarse == 2      \* unix timestamps are drawn from 0..MaxCoarse
MaxFine   == 1      \* PPS timestamps are drawn from 0..MaxFine
MaxWindow == 2      \* ts_window is drawn from 0..MaxWindow
MaxBlock  == 2      \* _block_size is drawn from 1..MaxBlock

CoarseVals == 0..MaxCoarse
FineVals   == 0..MaxFine
Windows    == 0..MaxWindow
BlockSizes == 1..MaxBlock

VARIABLES
  pc,                \* position of main()
  ts_window,         \* argument --ts_window
  block_size,        \* module constant _block_size
  output_file,       \* the file at output_filename: "absent", "preexisting" or "written"
  inputs_opened,     \* an input file has been opened by this run
  of_keys,           \* keys this run put into the output file
  datasets_read,     \* timestamps have been fetched from the datasets
  charge_unix_ts, charge_ts, light_unix_ts, light_ts,
  light_start_idx, light_end_idx, charge_start_idx, charge_end_idx,
  light_curr_idx,    \* loop variable of the matching loop
  assoc,             \* the running list of per-block index arrays
  event_assoc_created, \* dataset 'event_assoc' exists in the output file
  event_assoc,       \* data of dataset 'event_assoc' (rows <<charge, light>>)
  assoc_dset_ref,    \* attribute assoc_dset_ref of 'event_assoc'
  matched            \* the count printed by 'matched {} events', -1 before

vars == <<pc, ts_window, block_size, output_file, inputs_opened, of_keys,
          datasets_read, charge_unix_ts, charge_ts, light_unix_ts, light_ts,
          light_start_idx, light_end_idx, charge_start_idx, charge_end_idx,
          light_curr_idx, assoc, event_assoc_created, event_assoc,
          assoc_dset_ref, matched>>

\* ---- numpy helpers ------------------------------------------------------
Size(a) == Cardinality(DOMAIN a)

Arrays(n, S) == [0..(n-1) -> S]

Abs(x) == IF x < 0 THEN -x ELSE x

Min2(a, b) == IF a < b THEN a ELSE b

\* np.min / np.max of a non-empty array
ArrMin(a) == CHOOSE v \in {a[k] : k \in DOMAIN a} : \A k \in DOMAIN a : v <= a[k]
ArrMax(a) == CHOOSE v \in {a[k] : k \in DOMAIN a} : \A k \in DOMAIN a : v >= a[k]

\* np.argmax of a boolean array: the first True, and 0 when there is none
ArgMax(mask) ==
  IF \E k \in DOMAIN mask : mask[k]
  THEN CHOOSE k \in DOMAIN mask : mask[k] /\ \A m \in DOMAIN mask : m < k => ~mask[m]
  ELSE 0

\* mask[::-1]
Reversed(mask) == [k \in DOMAIN mask |-> mask[Size(mask) - 1 - k]]

\* np.argmax((a < hi) & (a > lo - 1))
FirstIdx(a, lo, hi) == ArgMax([k \in DOMAIN a |-> (a[k] < hi) /\ (a[k] > lo - 1)])

\* LastIdx with the reversal [::-1] forgotten
LastIdxUnreversed(a, lo, hi) ==
  Size(a) - 1 - ArgMax([k \in DOMAIN a |-> (a[k] > lo) /\ (a[k] < hi + 1)])

\* n - 1 - np.argmax(((a > lo) & (a < hi + 1))[::-1])
LastIdx(a, lo, hi) ==
  Size(a) - 1 - ArgMax(Reversed([k \in DOMAIN a |-> (a[k] > lo) /\ (a[k] < hi + 1)]))

\* lexicographic order on rows <<x, y>>
RowLess(p, q) == (p[1] < q[1]) \/ (p[1] = q[1] /\ p[2] < q[2])

RECURSIVE SortedRows(_)
SortedRows(S) ==
  IF S = {} THEN <<>>
  ELSE LET m == CHOOSE p \in S : \A q \in S : q = p \/ RowLess(p, q)
       IN <<m>> \o SortedRows(S \ {m})

Rows(s) == {s[k] : k \in 1..Len(s)}

RECURSIVE SortedInts(_)
SortedInts(s) ==
  IF s = <<>> THEN <<>>
  ELSE LET k == CHOOSE x \in 1..Len(s) : \A y \in 1..Len(s) : s[x] <= s[y]
       IN <<s[k]>> \o SortedInts(SubSeq(s, 1, k - 1) \o SubSeq(s, k + 1, Len(s)))

\* np.sort(rows, axis=0) in place of np.unique: each column sorted on its own
SortColumns(s) ==
  LET c1 == SortedInts([k \in 1..Len(s) |-> s[k][1]])
      c2 == SortedInts([k \in 1..Len(s) |-> s[k][2]])
  IN [k \in 1..Len(s) |-> <<c1[k], c2[k]>>]

\* np.unique(rows, axis=0): the distinct rows in lexicographic order
Unique(s) == SortedRows(Rows(s))

RECURSIVE Concatenate(_)
Concatenate(list) ==
  IF list = <<>> THEN <<>> ELSE Head(list) \o Concatenate(Tail(list))

\* ---- the matching predicates (lines 128-129) -----------------------------
\* the coarse tolerance off by one
CoarseMatchWide(i, j) == Abs(light_unix_ts[j] - charge_unix_ts[i]) <= 2

CoarseMatch(i, j) == Abs(light_unix_ts[j] - charge_unix_ts[i]) <= 1

\* the fine comparison flipped
FineMatchFlipped(i, j, w) == Abs(light_ts[j] - charge_ts[i]) > w

FineMatch(i, j, w) == Abs(light_ts[j] - charge_ts[i]) < w

\* ---- one block of the matching loop (lines 119-132) ----------------------
JLight(i_light, bs) == Min2(i_light + bs, light_end_idx)

ICharge(i_light, j_light) ==
  FirstIdx(charge_unix_ts, light_unix_ts[i_light], light_unix_ts[j_light])

JCharge(i_light, j_light) ==
  LastIdx(charge_unix_ts, light_unix_ts[i_light], light_unix_ts[j_light])

\* assoc_mat over the slices [i_charge:j_charge] x [i_light:j_light]
AssocMat(i_light, j_light, i_charge, j_charge, w) ==
  [r \in 0..(j_charge - i_charge - 1), c \in 0..(j_light - i_light - 1) |->
     CoarseMatch(i_charge + r, i_light + c) /\ FineMatch(i_charge + r, i_light + c, w)]

\* np.argwhere(mat): the True positions in row-major order
ArgWhere(mat) == SortedRows({p \in DOMAIN mat : mat[p]})

\* the two offsets swapped
OffsetSwapped(idcs, i_charge, i_light) ==
  [k \in 1..Len(idcs) |-> <<idcs[k][1] + i_light, idcs[k][2] + i_charge>>]

\* idcs + np.array([[i_charge, i_light]])
Offset(idcs, i_charge, i_light) ==
  [k \in 1..Len(idcs) |-> <<idcs[k][1] + i_charge, idcs[k][2] + i_light>>]

BlockIdcs(i_light, bs, w) ==
  LET j_light  == JLight(i_light, bs)
      i_charge == ICharge(i_light, j_light)
      j_charge == JCharge(i_light, j_light)
  IN Offset(ArgWhere(AssocMat(i_light, j_light, i_charge, j_charge, w)), i_charge, i_light)

\* the guard on the empty list dropped
HasMatchesAlways(list) == TRUE

\* if len(assoc)
HasMatches(list) == Len(list) > 0

\* lines 136-138
Combine(list) == IF HasMatches(list) THEN Unique(Concatenate(list)) ELSE <<>>

\* the whole loop for(light_curr_idx in range(light_start_idx, light_end_idx, bs))
RECURSIVE BlockList(_, _, _)
BlockList(curr, bs, w) ==
  IF curr < light_end_idx
  THEN LET idcs == BlockIdcs(curr, bs, w)
       IN (IF idcs # <<>> THEN <<idcs>> ELSE <<>>) \o BlockList(curr + bs, bs, w)
  ELSE <<>>

\* the association table main computes with block size bs and window w
AssocTable(bs, w) == Combine(BlockList(light_start_idx, bs, w))

\* the existence check looking at a path that is never there
ExistsNever(f) == FALSE

\* os.path.exists(output_filename)
Exists(f) == f # "absent"

\* ---- the program --------------------------------------------------------
Init ==
  /\ pc = "start"
  /\ ts_window \in Windows
  /\ block_size \in BlockSizes
  /\ output_file \in {"absent", "preexisting"}
  /\ inputs_opened = FALSE
  /\ of_keys = {}
  /\ datasets_read = FALSE
  /\ charge_unix_ts = <<>> /\ charge_ts = <<>>
  /\ light_unix_ts = <<>> /\ light_ts = <<>>
  /\ light_start_idx = 0 /\ light_end_idx = 0
  /\ charge_start_idx = 0 /\ charge_end_idx = 0
  /\ light_curr_idx = 0
  /\ assoc = <<>>
  /\ event_assoc_created = FALSE
  /\ event_assoc = <<>>
  /\ assoc_dset_ref = <<>>
  /\ matched = -1

\* lines 59-60
CheckOutput ==
  /\ pc = "start"
  /\ pc' = IF Exists(output_file) THEN "raised" ELSE "link"
  /\ UNCHANGED <<ts_window, block_size, output_file, inputs_opened, of_keys,
          datasets_read, charge_unix_ts, charge_ts, light_unix_ts, light_ts,
          light_start_idx, light_end_idx, charge_start_idx, charge_end_idx,
          light_curr_idx, assoc, event_assoc_created, event_assoc,
          assoc_dset_ref, matched>>

\* lines 63-70: main called with copy=False
WriteLinks ==
  /\ pc = "link"
  /\ inputs_opened' = TRUE
  /\ output_file' = "written"
  /\ of_keys' = {"light_event", "ext_trigs", "events"}
  /\ pc' = "fetch"
  /\ UNCHANGED <<ts_window, block_size,
          datasets_read, charge_unix_ts, charge_ts, light_unix_ts, light_ts,
          light_start_idx, light_end_idx, charge_start_idx, charge_end_idx,
          light_curr_idx, assoc, event_assoc_created, event_assoc,
          assoc_dset_ref, matched>>

\* lines 71-75 and copy_file: main called with copy=True
CopyFiles ==
  /\ pc = "link"
  /\ output_file' = "written"
  /\ inputs_opened' = TRUE
  /\ of_keys' = {"light_event", "ext_trigs", "events"}
  /\ pc' = "fetch"
  /\ UNCHANGED <<ts_window, block_size,
          datasets_read, charge_unix_ts, charge_ts, light_unix_ts, light_ts,
          light_start_idx, light_end_idx, charge_start_idx, charge_end_idx,
          light_curr_idx, assoc, event_assoc_created, event_assoc,
          assoc_dset_ref, matched>>

\* lines 77-96: the four timestamp arrays are read from the datasets
FetchTimestamps ==
  /\ pc = "fetch"
  /\ \E nc \in 0..MaxCharge, nl \in 0..MaxLight :
       /\ charge_unix_ts' \in Arrays(nc, CoarseVals)
       /\ charge_ts' \in Arrays(nc, FineVals)
       /\ light_unix_ts' \in Arrays(nl, CoarseVals)
       /\ light_ts' \in Arrays(nl, FineVals)
  /\ datasets_read' = TRUE
  /\ pc' = "ranges"
  /\ UNCHANGED <<ts_window, block_size, output_file, inputs_opened, of_keys,
          light_start_idx, light_end_idx, charge_start_idx, charge_end_idx,
          light_curr_idx, assoc, event_assoc_created, event_assoc,
          assoc_dset_ref, matched>>

\* lines 98-114; np.min of an empty array raises ValueError
ComputeRanges ==
  /\ pc = "ranges"
  /\ IF Size(light_unix_ts) = 0 \/ Size(charge_unix_ts) = 0
     THEN /\ pc' = "error"
          /\ UNCHANGED <<light_start_idx, light_end_idx, charge_start_idx,
                         charge_end_idx, light_curr_idx>>
     ELSE LET light_start_time  == ArrMin(light_unix_ts)
              charge_start_time == ArrMin(charge_unix_ts)
              light_end_time    == ArrMax(light_unix_ts)
              charge_end_time   == ArrMax(charge_unix_ts)
          IN /\ light_start_idx'  = FirstIdx(light_unix_ts, charge_start_time, charge_end_time)
             /\ charge_start_idx' = FirstIdx(charge_unix_ts, light_start_time, light_end_time)
             /\ light_end_idx'    = LastIdx(light_unix_ts, charge_start_time, charge_end_time)
             /\ charge_end_idx'   = LastIdx(charge_unix_ts, light_start_time, light_end_time)
             /\ light_curr_idx'   = FirstIdx(light_unix_ts, charge_start_time, charge_end_time)
             /\ pc' = "loop"
  /\ UNCHANGED <<ts_window, block_size, output_file, inputs_opened, of_keys,
          datasets_read, charge_unix_ts, charge_ts, light_unix_ts, light_ts,
          assoc, event_assoc_created, event_assoc, assoc_dset_ref, matched>>

\* lines 118-133: one iteration of the matching loop; an index outside an
\* array raises IndexError
MatchBlock ==
  /\ pc = "loop"
  /\ light_curr_idx < light_end_idx
  /\ LET i_light == light_curr_idx
         j_light == JLight(i_light, block_size)
     IN IF i_light \notin DOMAIN light_unix_ts \/ j_light \notin DOMAIN light_unix_ts
        THEN /\ pc' = "error"
             /\ UNCHANGED <<assoc, light_curr_idx>>
        ELSE LET idcs == BlockIdcs(i_light, block_size, ts_window)
             IN /\ assoc' = IF idcs # <<>> THEN Append(assoc, idcs) ELSE assoc
                /\ light_curr_idx' = light_curr_idx + block_size
                /\ pc' = "loop"
  /\ UNCHANGED <<ts_window, block_size, output_file, inputs_opened, of_keys,
          datasets_read, charge_unix_ts, charge_ts, light_unix_ts, light_ts,
          light_start_idx, light_end_idx, charge_start_idx, charge_end_idx,
          event_assoc_created, event_assoc, assoc_dset_ref, matched>>

\* lines 135-144, entered when the range of the loop is exhausted
CombineArrays ==
  /\ pc = "loop"
  /\ ~(light_curr_idx < light_end_idx)
  /\ IF HasMatches(assoc)
     THEN /\ event_assoc' = Combine(assoc)
          /\ event_assoc_created' = TRUE
          /\ of_keys' = of_keys \cup {"event_assoc"}
          /\ assoc_dset_ref' = <<"ext_trigs", "light_event">>
          /\ matched' = Len(Combine(assoc))
     ELSE /\ matched' = Len(assoc)
          /\ UNCHANGED <<event_assoc, event_assoc_created, of_keys, assoc_dset_ref>>
  /\ pc' = "done"
  /\ UNCHANGED <<ts_window, block_size, output_file, inputs_opened,
          datasets_read, charge_unix_ts, charge_ts, light_unix_ts, light_ts,
          light_start_idx, light_end_idx, charge_start_idx, charge_end_idx,
          light_curr_idx, assoc>>

Next ==
  \/ CheckOutput
  \/ WriteLinks
  \/ CopyFiles
  \/ FetchTimestamps
  \/ ComputeRanges
  \/ MatchBlock
  \/ CombineArrays

Spec == Init /\ [][Next]_vars

TypeOK ==
  /\ pc \in {"start", "raised", "link", "fetch", "ranges", "loop", "done", "error"}
  /\ matched \in -1..(MaxCharge * MaxLight)

\* ---- vocabulary of the properties ----------------------------------------
Ascending(a) == \A k, m \in DOMAIN a : k < m => a[k] <= a[m]

NonEmptyStreams == Size(charge_unix_ts) > 0 /\ Size(light_unix_ts) > 0

\* both association predicates, for charge index i and light index j
Match(i, j, w) ==
  /\ Abs(charge_unix_ts[i] - light_unix_ts[j]) <= 1
  /\ Abs(charge_ts[i] - light_ts[j]) < w

\* all matching pairs of the full cross product of the two streams
AllMatches(w) ==
  {p \in (DOMAIN charge_unix_ts) \X (DOMAIN light_unix_ts) : Match(p[1], p[2], w)}

RowOK(p, w) ==
  /\ p[1] \in DOMAIN charge_unix_ts
  /\ p[2] \in DOMAIN light_unix_ts
  /\ Match(p[1], p[2], w)

\* C1: every pair (i, j) of the association table (and of every block's index
\* array it is combined from) has |charge_unix_ts[i] - light_unix_ts[j]| <= 1
\* and |charge_ts[i] - light_ts[j]| < ts_window, for any input arrays.
C1_Soundness ==
  /\ \A k \in 1..Len(event_assoc) : RowOK(event_assoc[k], ts_window)
  /\ \A b \in 1..Len(assoc) : \A k \in 1..Len(assoc[b]) : RowOK(assoc[b][k], ts_window)

C1_Witness ==
  /\ pc = "done"
  /\ \E k \in 1..Len(event_assoc) : event_assoc[k][1] > 0 /\ event_assoc[k][2] > 0
  /\ ~Ascending(light_unix_ts)

\* C2: for coarse-ascending streams, every matching pair (i, j) with i in
\* charge_start_idx..charge_end_idx and j in light_start_idx..light_end_idx
\* is in the final association table.
C2_Completeness ==
  (pc = "done" /\ Ascending(charge_unix_ts) /\ Ascending(light_unix_ts)) =>
    \A i \in charge_start_idx..charge_end_idx, j \in light_start_idx..light_end_idx :
      Match(i, j, ts_window) => <<i, j>> \in Rows(event_assoc)

\* C3: for the same four timestamp arrays and the same ts_window the final
\* set of association pairs is the same for every positive block size (stated
\* over coarse-ascending streams, the streams the data model admits).
C3_BlockSizeInvariance ==
  (pc = "done" /\ Ascending(charge_unix_ts) /\ Ascending(light_unix_ts)) =>
    \A bs \in BlockSizes : Rows(AssocTable(bs, ts_window)) = Rows(event_assoc)

\* C4: the final association table never holds the same row twice.
C4_NoDuplicates ==
  \A k, m \in 1..Len(event_assoc) : k # m => event_assoc[k] # event_assoc[m]

\* a charge index was matched in two different light blocks
C4_Witness ==
  /\ pc = "done"
  /\ \E b1, b2 \in 1..Len(assoc) :
       /\ b1 # b2
       /\ \E k1 \in 1..Len(assoc[b1]), k2 \in 1..Len(assoc[b2]) :
            assoc[b1][k1][1] = assoc[b2][k2][1]

\* the coarse spans of the streams are apart by more than gap - 1
Apart(gap) ==
  \/ ArrMax(charge_unix_ts) + gap <= ArrMin(light_unix_ts)
  \/ ArrMax(light_unix_ts) + gap <= ArrMin(charge_unix_ts)

EmptyOutcome ==
  /\ pc # "error"
  /\ pc = "done" => (event_assoc = <<>> /\ ~event_assoc_created /\ matched = 0)

\* C5 as stated: when the coarse spans do not overlap (max of one stream <
\* min of the other) the run does not fail, the table is empty and zero
\* matches are reported.
C5_DisjointEmpty ==
  (pc \in {"loop", "done", "error"} /\ NonEmptyStreams /\ Apart(1)) => EmptyOutcome

\* C5 amended: when the coarse spans are more than one unit apart (max of one
\* stream + 1 < min of the other) the run does not fail, the table is empty
\* and zero matches are reported.
C5_SeparatedEmpty ==
  (pc \in {"loop", "done", "error"} /\ NonEmptyStreams /\ Apart(2)) => EmptyOutcome

\* a run over separated streams that compared a non-empty block of light
\* events with a non-empty slice of charge events of equal fine timestamps
C5_Witness ==
  /\ pc = "done" /\ NonEmptyStreams /\ Apart(2)
  /\ light_curr_idx > light_start_idx
  /\ ts_window > 0
  /\ ICharge(light_start_idx, JLight(light_start_idx, block_size))
       < JCharge(light_start_idx, JLight(light_start_idx, block_size))
  /\ \A i \in DOMAIN charge_ts, j \in DOMAIN light_ts : charge_ts[i] = light_ts[j]

\* C6: for fixed arrays and block size, the table of a smaller window is a
\* subset of the table of a larger window.
C6_MonotonicTolerance ==
  pc = "done" =>
    \A w \in Windows :
      /\ w = ts_window => AssocTable(block_size, w) = event_assoc
      /\ w <= ts_window => Rows(AssocTable(block_size, w)) \subseteq Rows(event_assoc)
      /\ w >= ts_window => Rows(event_assoc) \subseteq Rows(AssocTable(block_size, w))

C6_Witness ==
  /\ pc = "done"
  /\ \E w \in Windows :
       /\ w < ts_window
       /\ AssocTable(block_size, w) # <<>>
       /\ Rows(AssocTable(block_size, w)) # Rows(event_assoc)

\* C7: when output_filename exists at the start of main, the only step is
\* the raise: no input file is opened, no dataset is read, nothing is linked
\* or copied, the file is left as it was and no event_assoc is written.
C7_OutputRefusal ==
  [][output_file = "preexisting" =>
       /\ pc' = "raised"
       /\ output_file' = "preexisting"
       /\ ~inputs_opened' /\ ~datasets_read'
       /\ of_keys' = {} /\ ~event_assoc_created'
       /\ matched' = -1]_vars

C7_Witness == pc = "raised" /\ output_file = "preexisting" /\ ~inputs_opened

InSpan(a, b) == {k \in DOMAIN a : ArrMin(b) - 1 < a[k] /\ a[k] < ArrMax(b) + 1}

RangeAsStated(a, b, s, e) ==
  /\ s <= e
  /\ \A k \in s..e : k \in InSpan(a, b)
  /\ InSpan(a, b) # {} =>
       /\ s \in InSpan(a, b) /\ \A k \in InSpan(a, b) : s <= k
       /\ e \in InSpan(a, b) /\ \A k \in InSpan(a, b) : k <= e

\* C9 as stated: for coarse-ascending non-empty streams the range
\* [start, end] has start <= end, lies inside (min(b) - 1, max(b) + 1), and
\* start / end are the first / last index satisfying that one predicate.
C9_RangeContract ==
  (pc \in {"loop", "done"} /\ Ascending(charge_unix_ts) /\ Ascending(light_unix_ts)) =>
    /\ RangeAsStated(light_unix_ts, charge_unix_ts, light_start_idx, light_end_idx)
    /\ RangeAsStated(charge_unix_ts, light_unix_ts, charge_start_idx, charge_end_idx)

StartSet(a, b) == {k \in DOMAIN a : ArrMin(b) - 1 < a[k] /\ a[k] < ArrMax(b)}
EndSet(a, b)   == {k \in DOMAIN a : ArrMin(b) < a[k] /\ a[k] < ArrMax(b) + 1}

RangeAmended(a, b, s, e) ==
  /\ s <= e
  /\ IF StartSet(a, b) # {}
     THEN s \in StartSet(a, b) /\ \A k \in StartSet(a, b) : s <= k
     ELSE s = 0
  /\ IF EndSet(a, b) # {}
     THEN e \in EndSet(a, b) /\ \A k \in EndSet(a, b) : k <= e
     ELSE e = Size(a) - 1
  /\ (StartSet(a, b) # {} /\ EndSet(a, b) # {}) => \A k \in s..e : k \in InSpan(a, b)

\* C9 amended: for coarse-ascending non-empty streams start <= end; start is
\* the first index with min(b) - 1 < a[k] < max(b), or 0 when there is none;
\* end is the last index with min(b) < a[k] < max(b) + 1, or length - 1 when
\* there is none; when both exist every index of [start, end] has
\* min(b) - 1 < a[k] < max(b) + 1.
C9_RangeAmended ==
  (pc \in {"loop", "done"} /\ Ascending(charge_unix_ts) /\ Ascending(light_unix_ts)) =>
    /\ RangeAmended(light_unix_ts, charge_unix_ts, light_start_idx, light_end_idx)
    /\ RangeAmended(charge_unix_ts, light_unix_ts, charge_start_idx, charge_end_idx)

\* ascending streams: the light range trimmed at its start, the charge range at its end
C9_Witness ==
  /\ pc = "loop" /\ Ascending(charge_unix_ts) /\ Ascending(light_unix_ts)
  /\ 0 < light_start_idx /\ light_start_idx < light_end_idx
  /\ StartSet(light_unix_ts, charge_unix_ts) # {}
  /\ charge_end_idx < Size(charge_unix_ts) - 1
  /\ EndSet(charge_unix_ts, light_unix_ts) # {}

\* C10: for coarse-ascending streams trimming loses nothing: no index
\* outside the restricted ranges has a matching partner, and the table is
\* the set of all matching pairs of the full cross product.
C10_TrimmingLossless ==
  (pc = "done" /\ Ascending(charge_unix_ts) /\ Ascending(light_unix_ts)) =>
    /\ \A p \in AllMatches(ts_window) :
         /\ p[1] \in charge_start_idx..charge_end_idx
         /\ p[2] \in light_start_idx..light_end_idx
    /\ Rows(event_assoc) = AllMatches(ts_window)

====
